---- MODULE Spec2Model ----
(***************************************************************************)
(* Measurement decoding of the Netatmo weather client (package netatmo).   *)
(*                                                                         *)
(* A call of GetMeasureByTimeRange or GetMeasureByNewest builds the        *)
(* request, fetches the response bytes, and hands them to                  *)
(* buildGetMeasureResponse, which unmarshals the JSON envelope and expands *)
(* every block of rows into Measure records.                               *)
(*                                                                         *)
(* Conventions of the model:                                               *)
(*   - a Go pointer is a sequence: <<>> is nil, <<v>> points to v;         *)
(*   - a float64 cell is a fixed-point number: the integer n stands for    *)
(*     the value n / Scale, so with Scale = 2 the integer 1 is 0.5 and -3  *)
(*     is -1.5; an int field holds a plain integer;                        *)
(*   - Go indexes from 0, TLA+ sequences from 1: the row at Go index i is  *)
(*     element i + 1, and NewMeasure is handed the Go index;               *)
(*   - timestamps are epoch seconds, far inside int64: no wrap-around.     *)
(***************************************************************************)
EXTENDS Integers, Sequences, FiniteSets, TLC

\* ------------------------------------------------------------ bounds

\* Most blocks in one response body.
MaxBlocks == 2

\* Most rows in one response body, over all its blocks.
MaxRows == 2

\* Cells range over the fixed-point numbers -MaxNum .. MaxNum.
MaxNum == 3

\* Denominator of the fixed-point cells: a cell n is the float n / Scale.
Scale == 2

\* ------------------------------------------------------- Go values

Nil == <<>>

Ptr(v) == <<v>>

Deref(p) == p[1]

\* A nil slice, and the slice holding the elements s.
NilSlice == [isNil |-> TRUE, elems |-> <<>>]

SliceOf(s) == [isNil |-> FALSE, elems |-> s]

\* A bug: a record equal to the one before it is taken for a duplicate.
AppendSlice_Dedup(sl, x) ==
    IF sl.elems # <<>> /\ sl.elems[Len(sl.elems)] = x THEN sl
    ELSE [isNil |-> FALSE, elems |-> Append(sl.elems, x)]

\* append(sl, x): a nil slice grows into a one-element slice.
AppendSlice(sl, x) == SliceOf(Append(sl.elems, x))

\* ---------------------------------------------------- program constants

TargetMeasurements ==
    <<"Temperature", "CO2", "Humidity", "Pressure", "Noise", "WindStrength",
      "WindAngle", "GustStrength", "GustAngle">>

\* The metrics whose Measure field is a *float64; the others are *int.
FloatMetrics == {"Temperature", "Pressure"}

\* The row cells buildGetMeasureResponse indexes: m[0] .. m[8].
NumCells == Len(TargetMeasurements)

\* ------------------------------------------------------- wire format

\* One JSON cell of a row: null, a number, or a value that is no number.
JNull == [tok |-> "null", val |-> 0]

JNum(n) == [tok |-> "num", val |-> n]

JStr == [tok |-> "str", val |-> 0]

\* The cell values rows are drawn from, null first.
Ring == <<JNull>> \o [n \in 1..(2 * MaxNum + 1) |-> JNum(n - 1 - MaxNum)]

\* The row of width w whose cell k is the ring's element p + k: every column
\* takes every cell value as p varies, and neighbouring columns differ.
RotRow(p, w) == [k \in 1..w |-> Ring[((p + k) % Len(Ring)) + 1]]

\* The full-width rows of numbers and nulls, one per rotation of the ring.
GoodRows == {RotRow(p, NumCells) : p \in 0..(Len(Ring) - 1)}

\* Rows whose shape is not the contract's: two cells short, one cell long,
\* and a full-width row with a string in place of a number.
ShortRow == RotRow(2, NumCells - 2)

LongRow == RotRow(2, NumCells + 1)

StrRow == [RotRow(2, NumCells) EXCEPT ![1] = JStr]

\* The rows of the responses that vary in structure: two well-formed rows and
\* the three malformed ones.
StructRows == {RotRow(1, NumCells), RotRow(4, NumCells), ShortRow, LongRow, StrRow}

BeginTimes == {1000, 2000}

StepTimes == {0, 60}

Headers == BeginTimes \X StepTimes

RECURSIVE SumSeq(_)
SumSeq(s) == IF s = <<>> THEN 0 ELSE s[1] + SumSeq(Tail(s))

\* The row counts of the blocks of a body.
Shapes ==
    {s \in UNION {[1..n -> 0..MaxRows] : n \in 0..MaxBlocks} : SumSeq(s) <= MaxRows}

\* The body with blocks of the row counts s, headers hs and the rows fr in order.
Assemble(s, hs, fr) ==
    [b \in 1..Len(s) |->
        [beg_time |-> hs[b][1],
         step_time |-> hs[b][2],
         value |-> SubSeq(fr, SumSeq(SubSeq(s, 1, b - 1)) + 1,
                              SumSeq(SubSeq(s, 1, b)))]]

\* Bytes that are no JSON document.
Garbage == [valid |-> FALSE, body |-> <<>>]

JsonDoc(body) == [valid |-> TRUE, body |-> body]

\* The shape of the responses that vary in their cells: one block of one or
\* two rows.
CellShapes == {<<1>>, <<2>>}

DeviceIDs == {"70:ee:50:aa:aa:aa", "70:ee:50:bb:bb:bb"}

ModuleIDs == {"02:00:00:aa:aa:aa"}

Calls == {"c1", "c2"}

\* ------------------------------------------------------------- state

VARIABLES
    pc,         \* where each call stands
    method,     \* "TimeRange" or "Newest"
    deviceID,   \* the caller's arguments
    moduleID,
    request,    \* the query sent upstream
    data,       \* the response bytes read
    response,   \* buildGetMeasureResponse: the unmarshalled envelope
    measures,   \* buildGetMeasureResponse: the slice being built
    bi,         \* the block the outer loop is at (1-based)
    ri,         \* the row the inner loop is at (1-based)
    built,      \* what buildGetMeasureResponse returned
    ret         \* what the call returned to its caller

vars == <<pc, method, deviceID, moduleID, request, data, response, measures,
          bi, ri, built, ret>>

\* ------------------------------------------------------ json.Unmarshal

\* json.Unmarshal into getMeasureResponse fails on bytes that are no JSON
\* document and on a cell that is neither null nor a number.
UnmarshalFails(d) ==
    \/ ~d.valid
    \/ \E b \in 1..Len(d.body) :
         \E r \in 1..Len(d.body[b].value) :
           \E k \in 1..Len(d.body[b].value[r]) : d.body[b].value[r][k].tok = "str"

\* A cell as a *float64: null is the nil pointer.
UnmarshalCell(c) == IF c.tok = "null" THEN Nil ELSE Ptr(c.val)

\* The measureBody of one block: rows keep the width they have on the wire.
UnmarshalBlock(blk) ==
    [BeginTime |-> blk.beg_time,
     StepTime |-> blk.step_time,
     Value |-> [r \in 1..Len(blk.value) |->
                  [k \in 1..Len(blk.value[r]) |-> UnmarshalCell(blk.value[r][k])]]]

Unmarshal(d) == [Body |-> [b \in 1..Len(d.body) |-> UnmarshalBlock(d.body[b])]]

\* ------------------------------------------------- value resolution

\* A bug: the float is rounded down instead of towards zero.
IntConv_Floor(x) == x \div Scale

\* int(x) of a float64: the fraction is discarded, towards zero.
IntConv(x) == IF x >= 0 THEN x \div Scale ELSE -((-x) \div Scale)

\* A bug: the zero test is left out of the float helper.
handleFloat_NoZeroCheck(v) == v

handleFloat(v) ==
    IF v = Nil THEN Nil
    ELSE IF Deref(v) = 0 THEN Nil
    ELSE v

\* A bug: the zero test is left out of the int helper.
handleInt_NoZeroCheck(v) ==
    IF v = Nil THEN Nil
    ELSE Ptr(IntConv(Deref(v)))

handleInt(v) ==
    IF v = Nil THEN Nil
    ELSE IF Deref(v) = 0 THEN Nil
    ELSE Ptr(IntConv(Deref(v)))

\* ------------------------------------------------- series expansion

\* Whether evaluating m[0] .. m[8] indexes past the end of the row m.
IndexPanics(m) == Len(m) < NumCells

\* A bug: the row is counted from one.
RowTimestamp_OneBased(v, i) == v.BeginTime + (v.StepTime * (i + 1))

\* The timestamp of the row at Go index i of the block v.
RowTimestamp(v, i) == v.BeginTime + (v.StepTime * i)

\* A bug: the identifiers are assigned crosswise.
NewMeasure_IDsSwapped(dev, mod, v, i, m) ==
    [DeviceID |-> mod,
     ModuleID |-> dev,
     Timestamp |-> RowTimestamp(v, i),
     Temperature |-> handleFloat(m[1]),
     CO2 |-> handleInt(m[2]),
     Humidity |-> handleInt(m[3]),
     Pressure |-> handleFloat(m[4]),
     Noise |-> handleInt(m[5]),
     WindStrength |-> handleInt(m[6]),
     WindAngle |-> handleInt(m[7]),
     GustStrength |-> handleInt(m[8]),
     GustAngle |-> handleInt(m[9])]

\* A bug: CO2 and Humidity read each other's column.
NewMeasure_ColumnsSwapped(dev, mod, v, i, m) ==
    [DeviceID |-> dev,
     ModuleID |-> mod,
     Timestamp |-> RowTimestamp(v, i),
     Temperature |-> handleFloat(m[1]),
     CO2 |-> handleInt(m[3]),
     Humidity |-> handleInt(m[2]),
     Pressure |-> handleFloat(m[4]),
     Noise |-> handleInt(m[5]),
     WindStrength |-> handleInt(m[6]),
     WindAngle |-> handleInt(m[7]),
     GustStrength |-> handleInt(m[8]),
     GustAngle |-> handleInt(m[9])]

\* The Measure literal of the row m at Go index i of the block v.
NewMeasure(dev, mod, v, i, m) ==
    [DeviceID |-> dev,
     ModuleID |-> mod,
     Timestamp |-> RowTimestamp(v, i),
     Temperature |-> handleFloat(m[1]),
     CO2 |-> handleInt(m[2]),
     Humidity |-> handleInt(m[3]),
     Pressure |-> handleFloat(m[4]),
     Noise |-> handleInt(m[5]),
     WindStrength |-> handleInt(m[6]),
     WindAngle |-> handleInt(m[7]),
     GustStrength |-> handleInt(m[8]),
     GustAngle |-> handleInt(m[9])]

\* The return values of buildGetMeasureResponse.
BuildReturn(ms, err) == [measures |-> ms, err |-> err]

\* A bug: an empty result is reported as a failure.
BuildResult_EmptyIsError(ms) ==
    IF Len(ms.elems) = 0 THEN [measures |-> NilSlice, err |-> Ptr("no data")]
    ELSE [measures |-> ms, err |-> Nil]

\* len(measures) == 0 returns nil, nil.
BuildResult(ms) ==
    IF Len(ms.elems) = 0 THEN BuildReturn(NilSlice, Nil) ELSE BuildReturn(ms, Nil)

\* The return values of a Client call: the slice of GetMeasureByTimeRange,
\* the pointer of GetMeasureByNewest, and the error of both.
CallReturn(ms, m, err) == [measures |-> ms, measure |-> m, err |-> err]

NoReturn == CallReturn(NilSlice, Nil, Nil)

\* GetMeasureByTimeRange returns what buildGetMeasureResponse returned.
TimeRangeResult(r) == CallReturn(r.measures, Nil, r.err)

\* Whether &measures[len(measures)-1] indexes an empty, non-nil slice.
NewestPanics(r) == r.err = Nil /\ ~r.measures.isNil /\ Len(r.measures.elems) = 0

\* A bug: the newest record is sought by timestamp, not by position.
NewestResult_LatestTimestamp(r) ==
    IF r.err # Nil THEN CallReturn(NilSlice, Nil, r.err)
    ELSE IF r.measures.isNil THEN CallReturn(NilSlice, Nil, Nil)
    ELSE LET e == r.measures.elems
             j == CHOOSE j \in 1..Len(e) : \A i \in 1..Len(e) : e[i].Timestamp <= e[j].Timestamp
         IN CallReturn(NilSlice, Ptr(e[j]), Nil)

\* GetMeasureByNewest after buildGetMeasureResponse returned r.
NewestResult(r) ==
    IF r.err # Nil THEN CallReturn(NilSlice, Nil, r.err)
    ELSE IF r.measures.isNil THEN CallReturn(NilSlice, Nil, Nil)
    ELSE CallReturn(NilSlice, Ptr(r.measures.elems[Len(r.measures.elems)]), Nil)

\* The query of both calls: type is strings.Join(TargetMeasurements, ","),
\* kept as the list of names in the order they are joined.
NewRequest(dev, mod) == [device_id |-> dev, module_id |-> mod, type |-> TargetMeasurements]

NoRequest == [device_id |-> "", module_id |-> "", type |-> <<>>]

\* ------------------------------------------------------------ actions

Init ==
    /\ pc = [c \in Calls |-> "idle"]
    /\ method = [c \in Calls |-> "none"]
    /\ deviceID = [c \in Calls |-> ""]
    /\ moduleID = [c \in Calls |-> ""]
    /\ request = [c \in Calls |-> NoRequest]
    /\ data = [c \in Calls |-> Garbage]
    /\ response = [c \in Calls |-> [Body |-> <<>>]]
    /\ measures = [c \in Calls |-> NilSlice]
    /\ bi = [c \in Calls |-> 0]
    /\ ri = [c \in Calls |-> 0]
    /\ built = [c \in Calls |-> BuildReturn(NilSlice, Nil)]
    /\ ret = [c \in Calls |-> NoReturn]

\* A caller enters GetMeasureByTimeRange: the request is built and sent.
GetMeasureByTimeRange(c) ==
    /\ pc[c] = "idle"
    /\ \E dev \in DeviceIDs, mod \in ModuleIDs :
         /\ deviceID' = [deviceID EXCEPT ![c] = dev]
         /\ moduleID' = [moduleID EXCEPT ![c] = mod]
         /\ request' = [request EXCEPT ![c] = NewRequest(dev, mod)]
    /\ method' = [method EXCEPT ![c] = "TimeRange"]
    /\ pc' = [pc EXCEPT ![c] = "get"]
    /\ UNCHANGED <<data, response, measures, bi, ri, built, ret>>

\* A caller enters GetMeasureByNewest: the request is built and sent.
GetMeasureByNewest(c) ==
    /\ pc[c] = "idle"
    /\ \E dev \in DeviceIDs, mod \in ModuleIDs :
         /\ deviceID' = [deviceID EXCEPT ![c] = dev]
         /\ moduleID' = [moduleID EXCEPT ![c] = mod]
         /\ request' = [request EXCEPT ![c] = NewRequest(dev, mod)]
    /\ method' = [method EXCEPT ![c] = "Newest"]
    /\ pc' = [pc EXCEPT ![c] = "get"]
    /\ UNCHANGED <<data, response, measures, bi, ri, built, ret>>

\* client.Get or ioutil.ReadAll fails: the call returns nil and the error.
FetchFails(c) ==
    /\ pc[c] = "get"
    /\ ret' = [ret EXCEPT ![c] = CallReturn(NilSlice, Nil, Ptr("transport"))]
    /\ pc' = [pc EXCEPT ![c] = "done"]
    /\ UNCHANGED <<method, deviceID, moduleID, request, data, response, measures,
                   bi, ri, built>>

\* The response bytes are read: bytes that are no JSON document, or a document
\* whose blocks have the row counts of one of shapes and rows drawn from rows,
\* every block with its own begin and step time.
FetchSucceeds(c, shapes, rows) ==
    /\ pc[c] = "get"
    /\ \/ data' = [data EXCEPT ![c] = Garbage]
       \/ \E s \in shapes :
            \E hs \in [1..Len(s) -> Headers] :
              \E fr \in [1..SumSeq(s) -> rows] :
                data' = [data EXCEPT ![c] = JsonDoc(Assemble(s, hs, fr))]
    /\ pc' = [pc EXCEPT ![c] = "build"]
    /\ UNCHANGED <<method, deviceID, moduleID, request, response, measures,
                   bi, ri, built, ret>>

\* buildGetMeasureResponse: json.Unmarshal, and var measures []Measure.
UnmarshalStep(c) ==
    /\ pc[c] = "build"
    /\ IF UnmarshalFails(data[c])
       THEN /\ built' = [built EXCEPT ![c] = BuildReturn(NilSlice, Ptr("json"))]
            /\ pc' = [pc EXCEPT ![c] = "built"]
            /\ UNCHANGED <<response, measures, bi, ri>>
       ELSE /\ response' = [response EXCEPT ![c] = Unmarshal(data[c])]
            /\ measures' = [measures EXCEPT ![c] = NilSlice]
            /\ bi' = [bi EXCEPT ![c] = 1]
            /\ ri' = [ri EXCEPT ![c] = 1]
            /\ pc' = [pc EXCEPT ![c] = "loop"]
            /\ UNCHANGED built
    /\ UNCHANGED <<method, deviceID, moduleID, request, data, ret>>

\* A bug: measures is a package-level slice, one buffer for every call.
RowStep_SharedBuffer(c) ==
    /\ pc[c] = "loop"
    /\ bi[c] <= Len(response[c].Body)
    /\ ri[c] <= Len(response[c].Body[bi[c]].Value)
    /\ LET v == response[c].Body[bi[c]]
           m == v.Value[ri[c]]
       IN IF IndexPanics(m)
          THEN /\ pc' = [pc EXCEPT ![c] = "panic"]
               /\ UNCHANGED <<measures, ri>>
          ELSE /\ measures' = [o \in Calls |->
                     AppendSlice(measures[c],
                                 NewMeasure(deviceID[c], moduleID[c], v, ri[c] - 1, m))]
               /\ ri' = [ri EXCEPT ![c] = @ + 1]
               /\ UNCHANGED pc
    /\ UNCHANGED <<method, deviceID, moduleID, request, data, response, bi, built, ret>>

\* One pass of the inner loop: the row's Measure is appended, or indexing the
\* row panics and the panic unwinds the call.
RowStep(c) ==
    /\ pc[c] = "loop"
    /\ bi[c] <= Len(response[c].Body)
    /\ ri[c] <= Len(response[c].Body[bi[c]].Value)
    /\ LET v == response[c].Body[bi[c]]
           m == v.Value[ri[c]]
       IN IF IndexPanics(m)
          THEN /\ pc' = [pc EXCEPT ![c] = "panic"]
               /\ UNCHANGED <<measures, ri>>
          ELSE /\ measures' = [measures EXCEPT ![c] =
                     AppendSlice(@, NewMeasure(deviceID[c], moduleID[c], v, ri[c] - 1, m))]
               /\ ri' = [ri EXCEPT ![c] = @ + 1]
               /\ UNCHANGED pc
    /\ UNCHANGED <<method, deviceID, moduleID, request, data, response, bi, built, ret>>

\* The inner loop is through the block's rows: the outer loop moves on.
NextBlock(c) ==
    /\ pc[c] = "loop"
    /\ bi[c] <= Len(response[c].Body)
    /\ ri[c] > Len(response[c].Body[bi[c]].Value)
    /\ bi' = [bi EXCEPT ![c] = @ + 1]
    /\ ri' = [ri EXCEPT ![c] = 1]
    /\ UNCHANGED <<pc, method, deviceID, moduleID, request, data, response,
                   measures, built, ret>>

\* The outer loop is through: buildGetMeasureResponse returns.
BuildReturns(c) ==
    /\ pc[c] = "loop"
    /\ bi[c] > Len(response[c].Body)
    /\ built' = [built EXCEPT ![c] = BuildResult(measures[c])]
    /\ pc' = [pc EXCEPT ![c] = "built"]
    /\ UNCHANGED <<method, deviceID, moduleID, request, data, response, measures,
                   bi, ri, ret>>

\* GetMeasureByTimeRange returns.
TimeRangeReturns(c) ==
    /\ pc[c] = "built"
    /\ method[c] = "TimeRange"
    /\ ret' = [ret EXCEPT ![c] = TimeRangeResult(built[c])]
    /\ pc' = [pc EXCEPT ![c] = "done"]
    /\ UNCHANGED <<method, deviceID, moduleID, request, data, response, measures,
                   bi, ri, built>>

\* GetMeasureByNewest returns, or panics indexing an empty slice.
NewestReturns(c) ==
    /\ pc[c] = "built"
    /\ method[c] = "Newest"
    /\ IF NewestPanics(built[c])
       THEN /\ pc' = [pc EXCEPT ![c] = "panic"]
            /\ UNCHANGED ret
       ELSE /\ ret' = [ret EXCEPT ![c] = NewestResult(built[c])]
            /\ pc' = [pc EXCEPT ![c] = "done"]
    /\ UNCHANGED <<method, deviceID, moduleID, request, data, response, measures,
                   bi, ri, built>>

Step(c, shapes, rows) ==
    \/ GetMeasureByTimeRange(c)
    \/ GetMeasureByNewest(c)
    \/ FetchFails(c)
    \/ FetchSucceeds(c, shapes, rows)
    \/ UnmarshalStep(c)
    \/ RowStep(c)
    \/ NextBlock(c)
    \/ BuildReturns(c)
    \/ TimeRangeReturns(c)
    \/ NewestReturns(c)

\* One caller: the call c1 runs alone, over the responses that vary in
\* structure: up to MaxBlocks blocks holding up to MaxRows rows of StructRows.
Next == Step("c1", Shapes, StructRows)

Spec == Init /\ [][Next]_vars

\* The same call over the responses that vary in their cells: one block of
\* well-formed rows, over every rotation of the ring.
NextCells == Step("c1", CellShapes, GoodRows)

SpecCells == Init /\ [][NextCells]_vars

\* The rows of the responses of concurrent calls: a well-formed row and the
\* short one.
ConcRows == {RotRow(1, NumCells), ShortRow}

\* Several callers at once: every call of Calls runs, their steps interleaved
\* in any order, each over its own response of one block of one or two rows.
NextConc == \E c \in Calls : Step(c, CellShapes, ConcRows)

SpecConc == Init /\ [][NextConc]_vars

\* ------------------------------------------------- reading a response

\* The rows of a body from block b on, in input order, each as <<block, row>>.
RECURSIVE RowRefsFrom(_, _)
RowRefsFrom(body, b) ==
    IF b > Len(body) THEN <<>>
    ELSE [r \in 1..Len(body[b].value) |-> <<b, r>>] \o RowRefsFrom(body, b + 1)

RowRefs(d) == RowRefsFrom(d.body, 1)

RowAt(d, ref) == d.body[ref[1]].value[ref[2]]

\* Some row of the document is not NumCells wide.
HasBadWidthRow(d) ==
    \E j \in 1..Len(RowRefs(d)) : Len(RowAt(d, RowRefs(d)[j])) # NumCells

\* A well-formed response: a JSON document whose rows are all NumCells wide
\* and hold only numbers and nulls.
WellFormed(d) == d.valid /\ ~UnmarshalFails(d) /\ ~HasBadWidthRow(d)

\* The call has read its response bytes.
Fetched(c) == pc[c] \in {"build", "loop", "built", "panic"} \/ (pc[c] = "done" /\ ret[c].err # Ptr("transport"))

\* buildGetMeasureResponse has returned to the call.
Built(c) == Fetched(c) /\ pc[c] \in {"built", "done"}

\* The call is over: it returned, or a panic unwound it.
Over(c) == Fetched(c) /\ pc[c] \in {"done", "panic"}

\* The present cell c is the number zero.
IsZero(c) == c.tok = "num" /\ c.val = 0

\* The float n / Scale with its fraction discarded: the integer t nearest to
\* zero-ward of it, of the same sign.
TruncTowardZero(n) ==
    CHOOSE t \in -(MaxNum + 1)..(MaxNum + 1) :
        IF n >= 0 THEN t >= 0 /\ t * Scale <= n /\ n < (t + 1) * Scale
        ELSE t <= 0 /\ t * Scale >= n /\ n > (t - 1) * Scale

\* ----------------------------------------------------------- claims

\* C1: for a well-formed response with a single block of N rows (N >= 0),
\* buildGetMeasureResponse does not panic and returns exactly N records and no
\* error, and the record at position i (from 0) has
\* Timestamp = BeginTime + StepTime * i.
C1_SingleBlockTimestamps ==
    \A c \in Calls :
        (Fetched(c) /\ WellFormed(data[c]) /\ Len(data[c].body) = 1) =>
            /\ pc[c] # "panic"
            /\ Built(c) =>
                 LET blk == data[c].body[1]
                     N == Len(blk.value)
                     out == built[c].measures.elems
                 IN /\ built[c].err = Nil
                    /\ Len(out) = N
                    /\ \A i \in 0..(N - 1) :
                         out[i + 1].Timestamp = blk.beg_time + blk.step_time * i

\* A single block of two rows with a non-zero step has been expanded.
C1_Witness ==
    /\ Built("c1") /\ WellFormed(data["c1"])
    /\ Len(data["c1"].body) = 1
    /\ Len(data["c1"].body[1].value) = 2
    /\ data["c1"].body[1].step_time # 0
    /\ Len(built["c1"].measures.elems) = 2

\* C2: in every record, the metric of a cell that is null, or present and
\* exactly 0.0, is absent: for the two float metrics and the seven int ones.
C2_ZeroAndNullAbsent ==
    \A c \in Calls :
        (Fetched(c) /\ data[c].valid) =>
            \A j \in 1..Len(measures[c].elems) :
                LET m == RowAt(data[c], RowRefs(data[c])[j])
                IN \A k \in 1..NumCells :
                     (m[k].tok = "null" \/ IsZero(m[k])) =>
                         measures[c].elems[j][TargetMeasurements[k]] = Nil

\* Records were built from a 0.0 in a float column, a 0.0 in an int column and
\* a null.
C2_Witness ==
    /\ Len(measures["c1"].elems) = 2
    /\ LET d == data["c1"]
           m1 == RowAt(d, RowRefs(d)[1])
           m2 == RowAt(d, RowRefs(d)[2])
       IN /\ IsZero(m1[1]) /\ measures["c1"].elems[1].Temperature = Nil
          /\ IsZero(m2[2]) /\ measures["c1"].elems[2].CO2 = Nil
          /\ m1[5].tok = "null" /\ measures["c1"].elems[1].Noise = Nil

\* C3: in every record, the metric of a present cell v # 0.0 is present: it is
\* v for the float metrics and v truncated toward zero for the int metrics,
\* for positive and negative v.
C3_NonZeroResolved ==
    \A c \in Calls :
        (Fetched(c) /\ data[c].valid) =>
            \A j \in 1..Len(measures[c].elems) :
                LET m == RowAt(data[c], RowRefs(data[c])[j])
                IN \A k \in 1..NumCells :
                     (m[k].tok = "num" /\ m[k].val # 0) =>
                         measures[c].elems[j][TargetMeasurements[k]] =
                             IF TargetMeasurements[k] \in FloatMetrics
                             THEN Ptr(m[k].val)
                             ELSE Ptr(TruncTowardZero(m[k].val))

\* A record holds a negative value with a fraction in an int column, truncated
\* toward zero, and a non-zero value in a float column.
C3_Witness ==
    \E j \in 1..Len(measures["c1"].elems) :
        LET m == RowAt(data["c1"], RowRefs(data["c1"])[j])
        IN /\ m[2].tok = "num" /\ m[2].val < 0 /\ m[2].val % Scale # 0
           /\ -m[2].val > Scale
           /\ measures["c1"].elems[j].CO2 = Ptr(-((-m[2].val) \div Scale))
           /\ m[4].tok = "num" /\ m[4].val # 0
           /\ measures["c1"].elems[j].Pressure = Ptr(m[4].val)

\* C4: a response holding a row whose length is not 9 ends in an error
\* returned to the caller: no panic, no record set.
C4_BadWidthIsError ==
    \A c \in Calls :
        (Over(c) /\ data[c].valid /\ HasBadWidthRow(data[c])) =>
            /\ pc[c] = "done"
            /\ ret[c].err # Nil

\* C5: for a well-formed response with zero blocks, or with blocks that all
\* have zero rows, buildGetMeasureResponse returns the empty sequence and the
\* error nil.
C5_NoDataIsNotAnError ==
    \A c \in Calls :
        (Fetched(c) /\ WellFormed(data[c]) /\ Len(RowRefs(data[c])) = 0) =>
            /\ pc[c] # "panic"
            /\ Built(c) => built[c].err = Nil /\ Len(built[c].measures.elems) = 0

\* buildGetMeasureResponse has returned for a body of two empty blocks.
C5_Witness ==
    /\ Built("c1") /\ WellFormed(data["c1"])
    /\ Len(data["c1"].body) = 2
    /\ Len(RowRefs(data["c1"])) = 0
    /\ built["c1"].err = Nil

\* The record of the row ref of the response of call c.
RecordOfRow(c, ref) ==
    NewMeasure(deviceID[c], moduleID[c], Unmarshal(data[c]).Body[ref[1]], ref[2] - 1,
               Unmarshal(data[c]).Body[ref[1]].Value[ref[2]])

\* C6: GetMeasureByNewest, after a response was fetched and decoded: a
\* non-empty sequence yields the record at its last position, which for a
\* well-formed response is the last row of the last non-empty block whatever
\* the timestamps are; an empty one yields nil, nil; and the call never panics
\* on the sequence.
C6_NewestIsLastPosition ==
    \A c \in Calls :
        /\ ~(pc[c] = "panic" /\ NewestPanics(built[c]))
        /\ (pc[c] = "done" /\ Fetched(c) /\ method[c] = "Newest" /\ built[c].err = Nil) =>
             LET out == built[c].measures.elems
                 refs == RowRefs(data[c])
             IN /\ ret[c].err = Nil
                /\ IF Len(out) > 0
                   THEN /\ ret[c].measure = Ptr(out[Len(out)])
                        /\ WellFormed(data[c]) =>
                             ret[c].measure = Ptr(RecordOfRow(c, refs[Len(refs)]))
                   ELSE ret[c].measure = Nil

\* GetMeasureByNewest returned the last record of a response whose first
\* record has the larger timestamp.
C6_Witness ==
    /\ pc["c1"] = "done" /\ method["c1"] = "Newest" /\ WellFormed(data["c1"])
    /\ Len(built["c1"].measures.elems) = 2
    /\ built["c1"].measures.elems[1].Timestamp > built["c1"].measures.elems[2].Timestamp
    /\ ret["c1"].measure = Ptr(built["c1"].measures.elems[2])

\* C7: for a well-formed response, the records returned are those of the
\* rows in input order, block after block: as many as there are rows, none
\* reordered, merged or dropped, whatever their timestamps; and
\* GetMeasureByTimeRange returns that sequence.
C7_OutputOrderIsInputOrder ==
    \A c \in Calls :
        (Built(c) /\ WellFormed(data[c])) =>
            LET refs == RowRefs(data[c])
                out == built[c].measures.elems
            IN /\ built[c].err = Nil
               /\ Len(out) = SumSeq([b \in 1..Len(data[c].body) |-> Len(data[c].body[b].value)])
               /\ out = [j \in 1..Len(refs) |-> RecordOfRow(c, refs[j])]
               /\ (pc[c] = "done" /\ method[c] = "TimeRange") =>
                    ret[c].measures.elems = out /\ ret[c].err = Nil

\* GetMeasureByTimeRange returned two equal records, of two equal rows with the
\* same timestamp.
C7_Witness ==
    /\ pc["c1"] = "done" /\ method["c1"] = "TimeRange" /\ WellFormed(data["c1"])
    /\ Len(ret["c1"].measures.elems) = 2
    /\ ret["c1"].measures.elems[1] = ret["c1"].measures.elems[2]

\* C8: every record of a call carries the deviceID and the moduleID the caller
\* passed to it, whatever the response holds.
C8_RecordsCarryCallerIDs ==
    \A c \in Calls :
        /\ \A j \in 1..Len(measures[c].elems) :
             /\ measures[c].elems[j].DeviceID = deviceID[c]
             /\ measures[c].elems[j].ModuleID = moduleID[c]
        /\ \A j \in 1..Len(ret[c].measures.elems) :
             /\ ret[c].measures.elems[j].DeviceID = deviceID[c]
             /\ ret[c].measures.elems[j].ModuleID = moduleID[c]
        /\ ret[c].measure # Nil =>
             /\ Deref(ret[c].measure).DeviceID = deviceID[c]
             /\ Deref(ret[c].measure).ModuleID = moduleID[c]

\* GetMeasureByTimeRange returned two records.
C8_Witness ==
    /\ pc["c1"] = "done" /\ method["c1"] = "TimeRange"
    /\ deviceID["c1"] \in DeviceIDs
    /\ Len(ret["c1"].measures.elems) = 2

\* The value helper of a metric: handleFloat for a *float64 field, handleInt
\* for an *int field.
Resolve(name, v) == IF name \in FloatMetrics THEN handleFloat(v) ELSE handleInt(v)

\* C9: the request's type parameter lists the 9 metrics Temperature, CO2,
\* Humidity, Pressure, Noise, WindStrength, WindAngle, GustStrength, GustAngle,
\* and the record field filled from cell k of a row is the metric at place k
\* of that list.
C9_ColumnOrderIsRequestOrder ==
    \A c \in Calls :
        pc[c] # "idle" =>
            /\ Len(request[c].type) = 9
            /\ request[c].type =
                 <<"Temperature", "CO2", "Humidity", "Pressure", "Noise",
                   "WindStrength", "WindAngle", "GustStrength", "GustAngle">>
            /\ \A j \in 1..Len(measures[c].elems) :
                 LET m == RowAt(data[c], RowRefs(data[c])[j])
                 IN \A k \in 1..9 :
                      measures[c].elems[j][request[c].type[k]] =
                          Resolve(request[c].type[k], UnmarshalCell(m[k]))

\* A record was built from a row whose nine cells hold eight different values.
C9_Witness ==
    \E j \in 1..Len(measures["c1"].elems) :
        LET m == RowAt(data["c1"], RowRefs(data["c1"])[j])
        IN /\ Cardinality({m[k] : k \in 1..9}) >= 6
           /\ measures["c1"].elems[j].CO2 # Nil
           /\ measures["c1"].elems[j].Humidity # Nil

\* Decoding the response fails: it is no JSON document, a cell is no number,
\* or a row is not NumCells wide.
DecodeFails(d) == ~d.valid \/ UnmarshalFails(d) \/ HasBadWidthRow(d)

\* C10: when decoding fails, the call returns an error and no record: it does
\* not panic, and returns neither records nor the no-data result.
C10_DecodeFailureReturnsErrorOnly ==
    \A c \in Calls :
        (Over(c) /\ DecodeFails(data[c])) =>
            /\ pc[c] = "done"
            /\ ret[c].err # Nil
            /\ Len(ret[c].measures.elems) = 0
            /\ ret[c].measure = Nil

\* Everything call c holds: its arguments, its response bytes, the locals of
\* buildGetMeasureResponse and its results.
CallState(c) ==
    <<pc[c], method[c], deviceID[c], moduleID[c], request[c], data[c], response[c],
      measures[c], bi[c], ri[c], built[c], ret[c]>>

\* The records of the first n rows of the response of call c, in input order.
AloneRecords(c, n) == [j \in 1..n |-> RecordOfRow(c, RowRefs(data[c])[j])]

\* The rows the loops of call c are through: those of the blocks before bi
\* and the ri - 1 first ones of block bi.
RowsPassed(c) ==
    SumSeq([b \in 1..(bi[c] - 1) |-> Len(data[c].body[b].value)]) + (ri[c] - 1)

\* Where call c stands equals where it stands when it runs alone on its own
\* arguments and response bytes: the slice built so far, what
\* buildGetMeasureResponse returned and what the call returned.
AsAlone(c) ==
    LET d == data[c]
        n == Len(RowRefs(d))
        all == AloneRecords(c, n)
        alone == IF n = 0 THEN BuildReturn(NilSlice, Nil) ELSE BuildReturn(SliceOf(all), Nil)
    IN /\ pc[c] \in {"idle", "get"} =>
            measures[c] = NilSlice /\ ret[c] = NoReturn
       /\ (Fetched(c) /\ UnmarshalFails(d)) =>
            /\ measures[c] = NilSlice
            /\ pc[c] # "panic"
            /\ Built(c) => built[c] = BuildReturn(NilSlice, Ptr("json"))
            /\ pc[c] = "done" => ret[c] = CallReturn(NilSlice, Nil, Ptr("json"))
       /\ (Fetched(c) /\ ~UnmarshalFails(d) /\ pc[c] \in {"loop", "panic"}) =>
            /\ measures[c].elems = AloneRecords(c, RowsPassed(c))
            /\ pc[c] = "panic" => IndexPanics(RowAt(d, RowRefs(d)[RowsPassed(c) + 1]))
       /\ (Built(c) /\ ~UnmarshalFails(d)) =>
            /\ built[c] = alone
            /\ (pc[c] = "done" /\ method[c] = "TimeRange") =>
                 ret[c] = CallReturn(alone.measures, Nil, Nil)
            /\ (pc[c] = "done" /\ method[c] = "Newest") =>
                 ret[c] = CallReturn(NilSlice, IF n = 0 THEN Nil ELSE Ptr(all[n]), Nil)

\* A step is the step of one call: it leaves everything the other calls hold
\* as it was.
OneCallMoves == \E c \in Calls : \A o \in Calls \ {c} : CallState(o)' = CallState(o)

\* C11: under any interleaving of concurrent calls, every call stands at every
\* step where it stands when run alone on its own inputs, and returns what it
\* returns alone; and no step of one call changes the input, the intermediate
\* state or the output of another.
C11_ConcurrentCallsIndependent ==
    /\ [](\A c \in Calls : AsAlone(c))
    /\ [][OneCallMoves]_vars

\* Two calls with different arguments and different responses are both in
\* the middle of their loops, each with a record appended.
C11_Witness ==
    /\ pc["c1"] = "loop" /\ pc["c2"] = "loop"
    /\ deviceID["c1"] # deviceID["c2"]
    /\ data["c1"] # data["c2"]
    /\ Len(measures["c1"].elems) = 1 /\ Len(measures["c2"].elems) = 1
    /\ measures["c1"].elems # measures["c2"].elems

\* The present cell c is a non-zero fraction of magnitude below 1.
IsSmallFraction(c) == c.tok = "num" /\ c.val # 0 /\ -Scale < c.val /\ c.val < Scale

\* C12, as claimed: in every record no metric is present with the value 0,
\* the int metrics of cells such as 0.5 and -0.5 included.
C12_NoPresentZero ==
    \A c \in Calls :
        \A j \in 1..Len(measures[c].elems) :
            \A k \in 1..NumCells :
                LET f == measures[c].elems[j][TargetMeasurements[k]]
                IN f # Nil => Deref(f) # 0

\* C12, amended: in every record no float metric is present with the value 0,
\* and an int metric is present with the value 0 only when its cell is a
\* non-zero fraction of magnitude below 1, which handleInt truncates to 0.
C12_PresentZeroOnlyFromSmallFraction ==
    \A c \in Calls :
        (Fetched(c) /\ data[c].valid) =>
            \A j \in 1..Len(measures[c].elems) :
                LET m == RowAt(data[c], RowRefs(data[c])[j])
                IN \A k \in 1..NumCells :
                     LET f == measures[c].elems[j][TargetMeasurements[k]]
                     IN (f # Nil /\ Deref(f) = 0) =>
                            /\ TargetMeasurements[k] \notin FloatMetrics
                            /\ IsSmallFraction(m[k])

\* A record holds CO2 present with the value 0, from a cell that is a positive
\* fraction below 1, next to Temperature absent, from a cell that is 0.0.
C12_Witness ==
    \E j \in 1..Len(measures["c1"].elems) :
        LET m == RowAt(data["c1"], RowRefs(data["c1"])[j])
        IN /\ IsSmallFraction(m[2]) /\ m[2].val > 0
           /\ measures["c1"].elems[j].CO2 = Ptr(0)
           /\ IsZero(m[1])
           /\ measures["c1"].elems[j].Temperature = Nil

====
